---- MODULE Spec2Model ----
(***************************************************************************)
(* Model of ExtensionContainer (falcon-server): the extension registry,    *)
(* the GraphQL config builder, the auto-bound resolvers and the            *)
(* backend-config aggregator.                                              *)
(***************************************************************************)
EXTENDS Integers, Sequences, FiniteSets, TLC

\* ------------------------------------------------------------------------
\* Bounds
\* ------------------------------------------------------------------------
\* providers in context.dataSources / configs handed to mergeBackendConfigs
MaxProviders == 2
\* length of one locales list
MaxLocales == 2

\* entries of one registerExtensions argument
MaxEntries == 2
\* entries registered over all registerExtensions calls
MaxRegistrations == 2
\* listeners of the "extension registered" event
MaxListeners == 2
\* createGraphQLConfig calls
MaxBuilds == 2
\* createGraphQLConfig calls when one aggregate is looked at
MaxComposeBuilds == 1

Locales == {"en", "de", "fr"}

\* ------------------------------------------------------------------------
\* JavaScript values: undefined, a string, an array of strings
\* ------------------------------------------------------------------------
Undef == [t |-> "undef", s |-> <<>>]
Str(x) == [t |-> "str", s |-> <<x>>]
Arr(q) == [t |-> "arr", s |-> q]

\* Array.isArray
IsArray(v) == v.t = "arr"

\* o[f] on an object modelled as a function from its own keys to values
Get(o, f) == IF f \in DOMAIN o THEN o[f] ELSE Undef

SeqsUpTo(S, n) == UNION {[1..k -> S] : k \in 0..n}

Range(q) == {q[i] : i \in DOMAIN q}

\* the empty object {}
EmptyObj == [f \in {} |-> Undef]

\* ------------------------------------------------------------------------
\* Backend-config aggregator
\* ------------------------------------------------------------------------
LocaleLists == SeqsUpTo(Locales, MaxLocales)

\* What a provider's fetchBackendConfig may resolve to: null, or an object
\* with or without a locales field (a list, or a non-list value) and with or
\* without other fields.
NullCfg == [isNull |-> TRUE, fields |-> EmptyObj]
ObjCfg(o) == [isNull |-> FALSE, fields |-> o]
RemoteBackendConfigs ==
    {NullCfg, ObjCfg(EmptyObj), ObjCfg([f \in {"shop"} |-> Str("main")]),
     ObjCfg([f \in {"locales"} |-> Str("en")])}
    \cup {ObjCfg([f \in {"locales", "shop"} |->
                   IF f = "locales" THEN Arr(l) ELSE Str("main")]) : l \in LocaleLists}

\* the reducer with the else branch taking the current list whenever it is one
MergeStepCurrentWins(prev, current) ==
    IF current.isNull THEN prev
    ELSE LET prevLocales == Get(prev, "locales")
             currLocales == Get(current.fields, "locales")
         IN [f \in {"locales"} |->
               IF IsArray(currLocales) THEN currLocales ELSE prevLocales]

\* the reducer of mergeBackendConfigs
MergeStep(prev, current) ==
    IF current.isNull THEN prev
    ELSE LET prevLocales == Get(prev, "locales")
             currLocales == Get(current.fields, "locales")
             isPrevLocalesArr == IsArray(prevLocales)
             isCurrLocalesArr == IsArray(currLocales)
             mergedLocales ==
                 IF isCurrLocalesArr /\ isPrevLocalesArr
                 THEN Arr(SelectSeq(currLocales.s,
                                    LAMBDA loc : loc \in Range(prevLocales.s)))
                 ELSE IF isCurrLocalesArr /\ ~isPrevLocalesArr
                      THEN currLocales ELSE prevLocales
         IN [f \in {"locales"} |-> mergedLocales]

RECURSIVE Reduce(_, _)
Reduce(configs, prev) ==
    IF configs = <<>> THEN prev
    ELSE Reduce(Tail(configs), MergeStep(prev, Head(configs)))

mergeBackendConfigs(configs) == Reduce(configs, EmptyObj)

\* the resolver returning undefined
NoResult == [undef |-> TRUE, fields |-> EmptyObj]

VARIABLES
    dataSources,   \* context.dataSources: sequence of [name, hasFetch]
    fpc,           \* position of fetchBackendConfig / the direct merge call
    fidx,          \* next entry of Object.entries(context.dataSources)
    awaiting,      \* index of the provider call being awaited, 0 if none
    inFlight,      \* provider calls started and not yet settled
    outcome,       \* settled provider calls: index -> [rejected, value]
    configs,       \* const configs
    calls,         \* provider indices in the order their fetch was called
    fresult,       \* [undef, fields]: what the call returned
    mergeInput     \* argument of a direct mergeBackendConfigs call

bvars == <<dataSources, fpc, fidx, awaiting, inFlight, outcome, configs, calls,
           fresult, mergeInput>>

\* state of the registry and of a registerExtensions call
VARIABLES
    entries,       \* this.entries: the Map, as a sequence of [key, config]
    order,         \* the keys in the order of their first registration
    replaced,      \* the [key, config] pairs that a later entries.set overwrote
    rpc,           \* "idle", or "emitting" while emitAsync is awaited
    declared,      \* the argument of the call: sequence of [key, package]
    ridx,          \* index in declared of the entry being registered
    listeners,     \* number of listeners of EXTENSION_REGISTERED
    pending,       \* number of listeners of the current notification not yet settled
    emitRejected,  \* a listener of the current notification rejected
    events,        \* what the current call did, in order
    payload,       \* the payload of the notification being delivered
    regsLeft       \* entries that may still be registered

rvars == <<entries, order, replaced, rpc, declared, ridx, listeners, pending,
           emitRejected, events, payload, regsLeft>>

\* state of the config builder and of its caller
VARIABLES
    base,          \* the defaultConfig object the caller passes (it keeps it)
    built,         \* the last createGraphQLConfig call: arguments and outcome
    ctxOut,        \* the call of the returned context function made since the
                   \* last step of the registry or the builder
    held,          \* a context function the caller kept, and its calls
    buildsLeft     \* createGraphQLConfig calls still to come

gvars == <<base, built, ctxOut, held, buildsLeft>>

\* state of the auto-binder and of a resolver invocation
VARIABLES
    bound,        \* resolver map of the last getExtensionGraphQLConfig call
    boundFrom,    \* its arguments
    bindResult,   \* whether it returned a config, and the config's schema
    invoked,      \* the last resolver invocation: [resolver, call]
    settled       \* how that invocation settled (ResolverRun)

avars == <<bound, boundFrom, bindResult, invoked, settled>>

InitBackend ==
    /\ \E n \in 0..MaxProviders :
         dataSources \in [1..n -> [hasFetch : BOOLEAN]]
    /\ fpc = "idle"
    /\ fidx = 1
    /\ awaiting = 0
    /\ inFlight = {}
    /\ outcome = <<>>
    /\ configs = <<>>
    /\ calls = <<>>
    /\ fresult = NoResult
    /\ mergeInput = <<>>

\* the resolver is invoked
CallFetchBackendConfig ==
    /\ fpc = "idle"
    /\ fpc' = "run"
    /\ UNCHANGED <<dataSources, fidx, awaiting, inFlight, outcome, configs, calls,
                   fresult, mergeInput>>
    /\ UNCHANGED <<avars, rvars, gvars>>

\* leaving the loop instead of the function at an unsupported provider
UnsupportedBreaks(cs) == [undef |-> FALSE, fields |-> mergeBackendConfigs(cs)]

\* `return;` at a provider without a fetchBackendConfig function
UnsupportedReturn(cs) == NoResult

\* the loop going on without waiting for the call it made
AwaitSkipped == TRUE

\* `await api.fetchBackendConfig(...)`: the loop resumes only when the awaited
\* call has settled
AwaitSettled == awaiting = 0 \/ awaiting \notin inFlight

\* One run of the loop from a resumption to the next suspension or return.
FetchStep ==
    /\ fpc = "run"
    /\ AwaitSettled
    /\ LET hasSettled == awaiting # 0 /\ awaiting \in DOMAIN outcome
           rejected == hasSettled /\ outcome[awaiting].rejected
           apiConfig == outcome[awaiting].value
           configs1 == IF hasSettled /\ ~rejected /\ ~apiConfig.isNull
                       THEN Append(configs, apiConfig) ELSE configs
       IN IF rejected
          THEN /\ fpc' = "threw"
               /\ UNCHANGED <<fidx, awaiting, inFlight, configs, calls, fresult>>
          ELSE IF fidx > Len(dataSources)
          THEN /\ fpc' = "returned"
               /\ configs' = configs1
               /\ fresult' = [undef |-> FALSE, fields |-> mergeBackendConfigs(configs1)]
               /\ UNCHANGED <<fidx, awaiting, inFlight, calls>>
          ELSE IF ~dataSources[fidx].hasFetch
          THEN /\ fpc' = "returned"
               /\ configs' = configs1
               /\ fresult' = UnsupportedReturn(configs1)
               /\ UNCHANGED <<fidx, awaiting, inFlight, calls>>
          ELSE /\ configs' = configs1
               /\ inFlight' = inFlight \cup {fidx}
               /\ awaiting' = fidx
               /\ calls' = Append(calls, fidx)
               /\ fidx' = fidx + 1
               /\ UNCHANGED <<fpc, fresult>>
    /\ UNCHANGED <<dataSources, outcome, mergeInput>>
    /\ UNCHANGED <<avars, rvars, gvars>>

\* a provider's fetchBackendConfig promise resolves
ProviderResolves ==
    /\ \E i \in inFlight, v \in RemoteBackendConfigs :
         /\ inFlight' = inFlight \ {i}
         /\ outcome' = (i :> [rejected |-> FALSE, value |-> v]) @@ outcome
    /\ UNCHANGED <<dataSources, fpc, fidx, awaiting, configs, calls, fresult, mergeInput>>
    /\ UNCHANGED <<avars, rvars, gvars>>

\* a provider's fetchBackendConfig promise rejects
ProviderRejects ==
    /\ \E i \in inFlight :
         /\ inFlight' = inFlight \ {i}
         /\ outcome' = (i :> [rejected |-> TRUE, value |-> NullCfg]) @@ outcome
    /\ UNCHANGED <<dataSources, fpc, fidx, awaiting, configs, calls, fresult, mergeInput>>
    /\ UNCHANGED <<avars, rvars, gvars>>

\* mergeBackendConfigs called on its own (it is a public method)
CallMergeBackendConfigs ==
    /\ fpc = "idle"
    /\ \E cs \in SeqsUpTo(RemoteBackendConfigs, MaxProviders) :
         /\ mergeInput' = cs
         /\ fresult' = [undef |-> FALSE, fields |-> mergeBackendConfigs(cs)]
    /\ fpc' = "merged"
    /\ UNCHANGED <<dataSources, fidx, awaiting, inFlight, outcome, configs, calls>>
    /\ UNCHANGED <<avars, rvars, gvars>>

NextBackend ==
    \/ CallFetchBackendConfig
    \/ FetchStep
    \/ ProviderResolves
    \/ ProviderRejects

\* no aggregation going on: a context without providers
InitMerge == InitBackend /\ dataSources = <<>>

NextMerge == CallMergeBackendConfigs

\* ------------------------------------------------------------------------
\* Auto-binder: getExtensionGraphQLConfig and the resolvers it synthesizes
\* ------------------------------------------------------------------------
\* Schema texts (typeDefs) and what getRootTypeFields extracts from each: the
\* fields declared on the root operation types, per root type.
EmptyTypeDefs == ""
BlogTypeDefs == "type Query { posts: [Post] } type Post { id: ID }"
ShopTypeDefs == "type Query { product: Product cart: Cart } type Mutation { addToCart: Cart }"
TypesOnlyTypeDefs == "type Money { amount: Float }"

TypeDefTexts == {BlogTypeDefs, ShopTypeDefs, TypesOnlyTypeDefs}

getRootTypeFields(typeDefs) ==
    CASE typeDefs = BlogTypeDefs -> [ty \in {"Query"} |-> <<"posts">>]
      [] typeDefs = ShopTypeDefs ->
           [ty \in {"Query", "Mutation"} |->
              IF ty = "Query" THEN <<"product", "cart">> ELSE <<"addToCart">>]
      [] OTHER -> [ty \in {} |-> <<>>]

FieldNames == {"posts", "product", "cart", "addToCart"}

\* data-source names an extension's config.api may give; NoApi is config.api
\* left undefined
NoApi == "undefined"
ApiNames == {"wp", "magento"}

\* a resolver function: one synthesized by the auto-binder for (ds, field),
\* or one written by an extension (ds is then the package that wrote it)
AutoResolver(ds, field) == [kind |-> "auto", ds |-> ds, field |-> field]
OwnResolver(pkg, field) == [kind |-> "own", ds |-> pkg, field |-> field]

\* only the Query type bound
BoundQueryOnly(typeDefs, dataSourceName) ==
    LET rootTypes == getRootTypeFields(typeDefs)
    IN [ty \in DOMAIN rootTypes \cap {"Query"} |->
          [f \in Range(rootTypes[ty]) |-> AutoResolver(dataSourceName, f)]]

\* the resolver map built by the two forEach loops
BoundResolvers(typeDefs, dataSourceName) ==
    LET rootTypes == getRootTypeFields(typeDefs)
    IN [ty \in DOMAIN rootTypes |->
          [f \in Range(rootTypes[ty]) |-> AutoResolver(dataSourceName, f)]]

\* getApi: `name in dataSources ? dataSources[name] : null`
getApi(ds, name) ==
    IF name \in DOMAIN ds THEN [isNull |-> FALSE, methods |-> ds[name]]
    ELSE [isNull |-> TRUE, methods |-> {}]

\* typeof applied to the value of a comparison (a boolean)
TypeofBoolean(b) == "boolean"

\* truthiness of a string in an if condition
TruthyString(str) == str # ""

\* what a data source's method returns for a call: determined by the method
\* and its arguments
MethodResult(ds, field, call) == <<ds, field, call.obj, call.args, call.info>>

NoValue == <<>>
NullValue == <<"null">>

\* the condition of the `if` guarding the throw, as written:
\* typeof (dataSource[fieldName] !== 'function')
MethodCheckFails(dataSource, fieldName) ==
    TruthyString(TypeofBoolean(fieldName \notin dataSource.methods))

\* One invocation of the resolver synthesized for (dataSourceName, fieldName):
\* how it settles, and the data-source method calls it makes.
ResolverRun(dataSourceName, fieldName, call) ==
    LET dataSource == getApi(call.context, dataSourceName)
    IN IF dataSource.isNull
       THEN \* dataSource[fieldName] on null
            [kind |-> "TypeError", value |-> NoValue, forwarded |-> <<>>]
       ELSE IF MethodCheckFails(dataSource, fieldName)
       THEN [kind |-> "Error: resolver method is not defined", value |-> NoValue,
             forwarded |-> <<>>]
       ELSE IF fieldName \in dataSource.methods
       THEN [kind |-> "returned",
             value |-> MethodResult(dataSourceName, fieldName, call),
             forwarded |-> <<[ds |-> dataSourceName, method |-> fieldName, call |-> call]>>]
       ELSE \* calling undefined
            [kind |-> "TypeError", value |-> NoValue, forwarded |-> <<>>]

\* request contexts: dataSources maps each configured name to the methods
\* its instance has
Contexts ==
    UNION {[names -> SUBSET {"posts", "product"}] : names \in SUBSET ApiNames}

Parents == {"parent"}
ArgVals == {"args1", "args2"}
Infos == {"info"}

ResolverCalls == [obj : Parents, args : ArgVals, context : Contexts, info : Infos]

NoInvocation == [resolver |-> AutoResolver(NoApi, ""),
                 call |-> [obj |-> "", args |-> "", context |-> <<>>, info |-> ""]]
NotSettled == [kind |-> "none", value |-> NoValue, forwarded |-> <<>>]

\* `Array.isArray(typeDefs) ? typeDefs : [typeDefs]` for the text of a schema
\* file
NormalizeTypeDefs(typeDefs) == <<typeDefs>>

\* getExtensionGraphQLConfig not called / returned undefined
NotBound == [status |-> "none", schema |-> <<>>]
NothingReturned == [status |-> "undefined", schema |-> <<>>]

InitResolver ==
    /\ bound = <<>>
    /\ boundFrom = [typeDefs |-> EmptyTypeDefs, dataSourceName |-> NoApi]
    /\ bindResult = NotBound
    /\ invoked = NoInvocation
    /\ settled = NotSettled

\* getExtensionGraphQLConfig(typeDefs, dataSourceName): nothing for falsy
\* typeDefs, otherwise {schema, resolvers}
Bind ==
    /\ \E typeDefs \in TypeDefTexts \cup {EmptyTypeDefs}, dataSourceName \in ApiNames \cup {NoApi} :
         /\ boundFrom' = [typeDefs |-> typeDefs, dataSourceName |-> dataSourceName]
         /\ IF ~TruthyString(typeDefs)
            THEN bound' = <<>> /\ bindResult' = NothingReturned
            ELSE /\ bound' = BoundResolvers(typeDefs, dataSourceName)
                 /\ bindResult' = [status |-> "config", schema |-> NormalizeTypeDefs(typeDefs)]
    /\ invoked' = NoInvocation
    /\ settled' = NotSettled
    /\ UNCHANGED <<bvars, rvars, gvars>>

\* a bound resolver is invoked with (obj, args, context, info)
InvokeResolver ==
    /\ \E ty \in DOMAIN bound :
         \E f \in DOMAIN bound[ty], call \in ResolverCalls :
           /\ invoked' = [resolver |-> bound[ty][f], call |-> call]
           /\ settled' = ResolverRun(bound[ty][f].ds, bound[ty][f].field, call)
    /\ UNCHANGED <<bound, boundFrom, bindResult>>
    /\ UNCHANGED <<bvars, rvars, gvars>>

NextResolver ==
    \/ Bind
    \/ InvokeResolver

\* ------------------------------------------------------------------------
\* Extension configs (ExtensionGraphQLConfig) and deepMerge
\* ------------------------------------------------------------------------
\* The value of a config key: undefined, a string, an array (of schema
\* fragments, resolver maps or context modifiers), a function, or an object
\* (a resolver map, a context literal, a name -> data source mapping).
CUndef == [t |-> "undef", items |-> <<>>, fn |-> "", obj |-> <<>>]
CStr(x) == [t |-> "str", items |-> <<x>>, fn |-> "", obj |-> <<>>]
CArr(q) == [t |-> "arr", items |-> q, fn |-> "", obj |-> <<>>]
CFn(f) == [t |-> "fn", items |-> <<>>, fn |-> f, obj |-> <<>>]
CObj(o) == [t |-> "obj", items |-> <<>>, fn |-> "", obj |-> o]

ConfigKeys == {"schema", "schemas", "resolvers", "context", "dataSources", "tracing"}

\* An object with ordered own keys (Object.keys order); a key that is not
\* among keys reads as undefined.
EmptyConfig == [keys |-> <<>>, vals |-> [k \in ConfigKeys |-> CUndef]]

With(cfg, key, value) ==
    [keys |-> IF key \in Range(cfg.keys) THEN cfg.keys ELSE Append(cfg.keys, key),
     vals |-> [cfg.vals EXCEPT ![key] = value]]

\* Object.assign(target, source) on objects modelled as functions
Assign(target, source) ==
    [f \in DOMAIN target \cup DOMAIN source |->
       IF f \in DOMAIN source THEN source[f] ELSE target[f]]

\* JavaScript truthiness
Truthy(v) == v.t # "undef" /\ (v.t = "str" => v.items # <<"">>)

\* deepmerge's isMergeableObject: arrays and plain objects, not functions
\* nor strings
IsMergeable(v) == v.t \in {"arr", "obj"}

\* deepmerge of two resolver maps: type by type, field by field; a resolver
\* function is not mergeable, so the source's wins
\* a merge in which the keys of the target win
MergeResolverMapsTargetWins(target, source) ==
    [ty \in DOMAIN target \cup DOMAIN source |->
       IF ty \in DOMAIN target /\ ty \in DOMAIN source
       THEN Assign(source[ty], target[ty])
       ELSE IF ty \in DOMAIN source THEN source[ty] ELSE target[ty]]

MergeResolverMaps(target, source) ==
    [ty \in DOMAIN target \cup DOMAIN source |->
       IF ty \in DOMAIN target /\ ty \in DOMAIN source
       THEN Assign(target[ty], source[ty])
       ELSE IF ty \in DOMAIN source THEN source[ty] ELSE target[ty]]

\* deepmerge(target[key], source[key]) for two values of one config key
DeepMergeValue(key, tv, sv) ==
    IF (sv.t = "arr") # (tv.t = "arr") THEN sv
    ELSE IF sv.t = "arr" THEN CArr(tv.items \o sv.items)
    ELSE IF tv.t # "obj" THEN sv
    ELSE CObj(IF key = "resolvers" THEN MergeResolverMaps(tv.obj, sv.obj)
              ELSE Assign(tv.obj, sv.obj))

\* deepmerge's mergeObject: the target's keys, then every key of the source,
\* replaced unless both sides can be merged
RECURSIVE MergeKeys(_, _, _)
MergeKeys(dest, source, ks) ==
    IF ks = <<>> THEN dest
    ELSE LET key == Head(ks)
             sv == source.vals[key]
             tv == dest.vals[key]
             merged == IF ~IsMergeable(sv) \/ ~Truthy(tv) THEN sv
                       ELSE DeepMergeValue(key, tv, sv)
         IN MergeKeys(With(dest, key, merged), source, Tail(ks))

deepMerge(target, source) == MergeKeys(target, source, source.keys)

\* ------------------------------------------------------------------------
\* Extension packages
\* ------------------------------------------------------------------------
\* the config getExtensionGraphQLConfig returns for non-empty typeDefs
getExtensionGraphQLConfig(typeDefs, dataSourceName) ==
    With(With(EmptyConfig, "schema", CArr(NormalizeTypeDefs(typeDefs))),
         "resolvers", CObj(BoundResolvers(typeDefs, dataSourceName)))

\* context modifier functions: what each returns for (arg, ctx)
Requests == {"alice", "bob"}

ModifierReturn(fn, arg, ctx) ==
    CASE fn = "user" -> [f \in {"user"} |-> arg]
      [] fn = "greet" ->
           [f \in {"greeting"} |-> IF "user" \in DOMAIN ctx THEN ctx["user"] ELSE "anonymous"]
      [] fn = "admin" -> [f \in {"user", "role"} |-> "admin"]
      [] OTHER -> <<>>   \* "async": a Promise, which has no own properties

\* A package: whether importModule finds an initializer ("none" when it does
\* not), what the initializer returns (a config, or undefined), the content
\* of its schema file ("" when there is none) and the api its config names.
Package(init, result, schemaFile, api) ==
    [init |-> init, result |-> result, schemaFile |-> schemaFile, api |-> api]

ShopInit ==
    With(With(With(With(EmptyConfig,
        "schema", CStr("type Shop { id: ID }")),
        "resolvers", CObj([ty \in {"Query"} |-> [f \in {"product"} |-> OwnResolver("shop", f)]])),
        "context", CFn("user")),
        "dataSources", CObj([n \in {"magento"} |-> "magento#shop"]))

AuthInit ==
    With(With(With(EmptyConfig, "tracing", CStr("on")), "context", CFn("greet")),
         "schema", CUndef)

I18nInit ==
    With(With(With(With(With(EmptyConfig,
        "dataSources", CObj([n \in {"wp"} |-> "wp#i18n"])),
        "tracing", CStr("verbose")),
        "schemas", CArr(<<"type Locale { code: String }", "type Currency { code: String }">>)),
        "schema", CArr(<<"type Language { code: String }">>)),
        "context", CObj([f \in {"locale", "user"} |-> IF f = "locale" THEN "en" ELSE "guest"]))

PackageNames == {"blog", "shop", "auth", "i18n", "noop"}

Packages ==
    [p \in PackageNames |->
       CASE p = "blog" -> Package("none", EmptyConfig, BlogTypeDefs, "wp")
         [] p = "shop" -> Package("config", ShopInit, ShopTypeDefs, "magento")
         [] p = "auth" -> Package("config", AuthInit, "", NoApi)
         [] p = "i18n" -> Package("config", I18nInit, "", "wp")
         [] OTHER -> Package("undefined", EmptyConfig, "", NoApi)]

\* extGqlConfig as registerExtensions computes it for one extension
ExtGqlConfig(pkg) ==
    LET afterInit ==
            IF pkg.init # "none"
            THEN deepMerge(EmptyConfig,
                           IF pkg.init = "config" THEN pkg.result ELSE EmptyConfig)
            ELSE EmptyConfig
    IN IF pkg.schemaFile # ""
       THEN deepMerge(afterInit, getExtensionGraphQLConfig(pkg.schemaFile, pkg.api))
       ELSE afterInit

\* ------------------------------------------------------------------------
\* Extension registry: registerExtensions
\* ------------------------------------------------------------------------
\* Extension identifiers. They are opaque to the registry, so the first
\* identifier ever registered is called "a", the second one "b", the third "c".
KeyOrder == <<"a", "b", "c">>
ExtKeys == Range(KeyOrder)

\* the order of first registration after registering the keys ks
OrderAfter(ks) == order \o SelectSeq(ks, LAMBDA k : k \notin Range(order))

\* the arguments of registerExtensions: own entries in for...in order
Min(x, y) == IF x <= y THEN x ELSE y

\* (an object has each key once, so no more entries than there are keys)
KeySeqs ==
    {ks \in SeqsUpTo(ExtKeys, Min(MaxEntries, Cardinality(ExtKeys))) :
       \A i, j \in DOMAIN ks : ks[i] = ks[j] => i = j}

\* the extensions object with keys ks naming the packages ps
ExtensionMap(ks, ps) == [i \in DOMAIN ks |-> [key |-> ks[i], package |-> ps[i]]]

Event(e, key) == [e |-> e, key |-> key]

\* the context function not called
NoContext == [called |-> FALSE, arg |-> "", ctx |-> <<>>]

\* this.entries.get(key), for a key the Map has
MapGet(map, key) == map[CHOOSE i \in DOMAIN map : map[i].key = key].config

MapHas(map, key) == \E i \in DOMAIN map : map[i].key = key

\* the config not stored when the notification goes out
MapSetSkipped(map, key, config) == map

\* a known key keeping the config it has
MapSetKeepsOld(map, key, config) ==
    IF MapHas(map, key) THEN map ELSE Append(map, [key |-> key, config |-> config])

\* Map.prototype.set: a new key goes last, a known key keeps its place
MapSet(map, key, config) ==
    IF MapHas(map, key)
    THEN [i \in DOMAIN map |->
            IF map[i].key = key THEN [key |-> key, config |-> config] ELSE map[i]]
    ELSE Append(map, [key |-> key, config |-> config])

\* no notification being delivered
NoPayload == [name |-> "", instance |-> EmptyConfig]

InitRegistry ==
    /\ payload = NoPayload
    /\ entries = <<>>
    /\ order = <<>>
    /\ replaced = {}
    /\ rpc = "idle"
    /\ declared = <<>>
    /\ ridx = 0
    /\ pending = 0
    /\ emitRejected = FALSE
    /\ events = <<>>

\* the loop body for entry i of exts up to `await emitAsync(...)`, or the
\* return when the entries are exhausted
Iterate(exts, i, log) ==
    IF i > Len(exts)
    THEN \* the call returns
         /\ rpc' = "idle"
         /\ ridx' = 0
         /\ pending' = 0
         /\ events' = <<>>
         /\ declared' = <<>>
         /\ payload' = NoPayload
         /\ UNCHANGED <<entries, order, replaced>>
    ELSE LET extKey == exts[i].key
             pkg == Packages[exts[i].package]
             extGqlConfig == ExtGqlConfig(pkg)
         IN /\ entries' = MapSet(entries, extKey, extGqlConfig)
            /\ order' = IF MapHas(entries, extKey) THEN order ELSE Append(order, extKey)
            /\ replaced' = IF MapHas(entries, extKey)
                           THEN replaced \cup {[key |-> extKey, config |-> MapGet(entries, extKey)]}
                           ELSE replaced
            /\ events' = log
                  \o (IF pkg.init # "none" THEN <<Event("init", extKey)>> ELSE <<>>)
                  \o <<Event("schema", extKey)>>
                  \o (IF pkg.schemaFile = "" THEN <<Event("warn", extKey)>> ELSE <<>>)
                  \o <<Event("set", extKey), Event("emit", extKey)>>
            /\ payload' = [name |-> extKey, instance |-> extGqlConfig]
            /\ pending' = listeners
            /\ rpc' = "emitting"
            /\ ridx' = i
            /\ declared' = exts

\* registerExtensions(extensions) is called: it runs to its first await
CallRegisterExtensions ==
    /\ rpc = "idle"
    /\ \E ks \in KeySeqs :
         /\ Len(ks) <= regsLeft
         /\ OrderAfter(ks) = SubSeq(KeyOrder, 1, Len(OrderAfter(ks)))
         /\ regsLeft' = regsLeft - Len(ks)
         /\ \E ps \in [DOMAIN ks -> PackageNames] :
              Iterate(ExtensionMap(ks, ps), 1, <<>>)
    /\ emitRejected' = FALSE
    /\ ctxOut' = NoContext
    /\ UNCHANGED <<listeners, base, built, held, buildsLeft>>
    /\ UNCHANGED <<avars, bvars>>

\* skipping the wait for the listeners
EmitNotAwaited == TRUE

\* `await this.eventEmitter.emitAsync(...)`: the promise of emitAsync settles
\* when every listener has resolved, or as soon as one rejects
EmitSettled == pending = 0 \/ emitRejected

\* the call resumes after the await: next entry, or the call rejects
ResumeRegisterExtensions ==
    /\ rpc = "emitting"
    /\ EmitSettled
    /\ IF emitRejected
       THEN \* the call rejects
            /\ rpc' = "idle"
            /\ ridx' = 0
            /\ pending' = 0
            /\ events' = <<>>
            /\ declared' = <<>>
            /\ payload' = NoPayload
            /\ UNCHANGED <<entries, order, replaced>>
       ELSE Iterate(declared, ridx + 1, events)
    /\ emitRejected' = FALSE
    /\ ctxOut' = NoContext
    /\ UNCHANGED <<listeners, regsLeft, base, built, held, buildsLeft>>
    /\ UNCHANGED <<avars, bvars>>

\* a listener of the current notification resolves
ListenerResolves ==
    /\ rpc = "emitting"
    /\ pending > 0
    /\ pending' = pending - 1
    /\ events' = Append(events, Event("resolved", declared[ridx].key))
    /\ UNCHANGED <<entries, order, replaced, rpc, declared, ridx, listeners, emitRejected, payload,
                   regsLeft>>
    /\ UNCHANGED <<avars, bvars, gvars>>

\* a listener of the current notification rejects
ListenerRejects ==
    /\ rpc = "emitting"
    /\ ~emitRejected
    /\ pending > 0
    /\ pending' = pending - 1
    /\ events' = Append(events, Event("rejected", declared[ridx].key))
    /\ emitRejected' = TRUE
    /\ UNCHANGED <<entries, order, replaced, rpc, declared, ridx, listeners, payload, regsLeft>>
    /\ UNCHANGED <<avars, bvars, gvars>>

NextRegister ==
    \/ CallRegisterExtensions
    \/ ResumeRegisterExtensions
    \/ ListenerResolves
    \/ ListenerRejects

\* ------------------------------------------------------------------------
\* Config builder: createGraphQLConfig, mergeGraphQLConfig, the context function
\* ------------------------------------------------------------------------
BaseKeys == {"schemas", "contextModifiers", "resolvers", "context", "dataSources", "tracing"}

NoBase == [k \in BaseKeys |-> CUndef]

ServerResolvers == [ty \in {"Query"} |-> [f \in {"backendConfig"} |-> OwnResolver("server", f)]]

\* the defaultConfig objects a caller passes (GraphQLConfigDefaults)
Bases ==
    {NoBase,
     [NoBase EXCEPT !["schemas"] = CArr(<<"type BackendConfig { locales: [String] }">>),
                    !["resolvers"] = CObj(ServerResolvers),
                    !["context"] = CFn("user"),
                    !["dataSources"] = CObj([n \in {"wp"} |-> "wp#server"]),
                    !["tracing"] = CStr("off")],
     [NoBase EXCEPT !["schemas"] = CArr(<<"type A { id: ID }", "type B { id: ID }">>),
                    !["resolvers"] = CArr(<<ServerResolvers>>),
                    !["contextModifiers"] = CArr(<<CFn("async"), CObj([f \in {"locale"} |-> "de"])>>),
                    !["context"] = CFn("admin"),
                    !["dataSources"] = CObj(<<>>)]}

Has(b, key) == b[key].t # "undef"

\* the first Object.assign of createGraphQLConfig
SeedConfig(defaultConfig) ==
    [schemas |-> IF Has(defaultConfig, "schemas") THEN defaultConfig["schemas"].items ELSE <<>>,
     contextModifiers |->
        IF Has(defaultConfig, "contextModifiers") THEN defaultConfig["contextModifiers"].items
        ELSE IF Truthy(defaultConfig["context"]) THEN <<defaultConfig["context"]>> ELSE <<>>,
     resolvers |->
        IF Truthy(defaultConfig["resolvers"]) /\ ~(defaultConfig["resolvers"].t = "arr")
        THEN <<defaultConfig["resolvers"].obj>> ELSE <<>>,
     dataSources |-> defaultConfig["dataSources"],
     tracing |-> defaultConfig["tracing"],
     warnings |-> <<>>,
     threw |-> FALSE]

\* `Array.isArray(value) ? value : [value]`
ValueArray(value) == IF value.t \in {"arr", "str"} THEN value.items ELSE <<value.obj>>

\* the default branch of the switch
UnsupportedKey(dest, name, value, extensionName) ==
    [dest EXCEPT !.warnings = Append(@, [ext |-> extensionName, key |-> name])]

\* fragments put in front of the aggregate's instead of behind
PrependSchemas(dest, valueArray) == [dest EXCEPT !.schemas = valueArray \o @]

\* dest.schemas.push(...valueArray)
PushSchemas(dest, valueArray) == [dest EXCEPT !.schemas = @ \o valueArray]

\* the body of the forEach of mergeGraphQLConfig for one key of the source
MergeConfigKey(dest, source, name, extensionName) ==
    LET value == source.vals[name]
    IN IF dest.threw \/ name = "" \/ value.t = "undef" THEN dest
       ELSE CASE name \in {"schema", "schemas"} -> PushSchemas(dest, ValueArray(value))
              [] name = "resolvers" -> [dest EXCEPT !.resolvers = @ \o ValueArray(value)]
              [] name = "context" -> [dest EXCEPT !.contextModifiers = Append(@, value)]
              [] name = "dataSources" ->
                   IF dest.dataSources.t = "undef"
                   THEN \* Object.assign(undefined, value): TypeError
                        [dest EXCEPT !.threw = TRUE]
                   ELSE [dest EXCEPT !.dataSources = CObj(Assign(@.obj, value.obj))]
              [] OTHER -> UnsupportedKey(dest, name, value, extensionName)

RECURSIVE MergeConfigKeys(_, _, _, _)
MergeConfigKeys(dest, source, ks, extensionName) ==
    IF ks = <<>> THEN dest
    ELSE MergeConfigKeys(MergeConfigKey(dest, source, Head(ks), extensionName),
                         source, Tail(ks), extensionName)

mergeGraphQLConfig(dest, source, extensionName) ==
    MergeConfigKeys(dest, source, source.keys, extensionName)

\* `for (const [extName, extConfig] of this.entries)`
RECURSIVE MergeEntries(_, _)
MergeEntries(config, map) ==
    IF map = <<>> THEN config
    ELSE MergeEntries(mergeGraphQLConfig(config, Head(map).config, Head(map).key), Tail(map))

\* `ctx = Object.assign(ctx, typeof modifier === 'function' ? modifier(arg, ctx) : modifier)`
ApplyModifier(ctx, modifier, arg) ==
    Assign(ctx, IF modifier.t = "fn" THEN ModifierReturn(modifier.fn, arg, ctx) ELSE modifier.obj)

\* the composite context function: config.context(arg)
RECURSIVE RunModifiers(_, _, _)
RunModifiers(contextModifiers, arg, ctx) ==
    IF contextModifiers = <<>> THEN ctx
    ELSE RunModifiers(Tail(contextModifiers), arg,
                      ApplyModifier(ctx, Head(contextModifiers), arg))

NotBuilt ==
    [status |-> "none", schemas |-> <<>>, resolvers |-> <<>>, contextModifiers |-> <<>>,
     aliased |-> FALSE, dataSources |-> CUndef, tracing |-> CUndef, warnings |-> <<>>,
     baseAtCall |-> NoBase, entriesAtCall |-> <<>>]

\* no context function kept
NotHeld ==
    [held |-> FALSE, aliased |-> FALSE, contextModifiers |-> <<>>,
     first |-> NoContext, again |-> NoContext]

InitBuilder ==
    /\ base \in Bases
    /\ built = NotBuilt
    /\ ctxOut = NoContext
    /\ held = NotHeld

\* createGraphQLConfig(base): the arrays and the dataSources object of base
\* are the ones the merge writes to, so base changes with them
CreateGraphQLConfig ==
    /\ buildsLeft > 0
    /\ buildsLeft' = buildsLeft - 1
    /\ LET config == MergeEntries(SeedConfig(base), entries)
       IN /\ base' = [base EXCEPT
                        !["schemas"] = IF Has(base, "schemas") THEN CArr(config.schemas) ELSE @,
                        !["contextModifiers"] =
                            IF Has(base, "contextModifiers")
                            THEN CArr(config.contextModifiers) ELSE @,
                        !["dataSources"] = config.dataSources]
          /\ built' = [status |-> IF config.threw THEN "threw" ELSE "built",
                       schemas |-> config.schemas,
                       resolvers |-> config.resolvers,
                       contextModifiers |-> config.contextModifiers,
                       aliased |-> Has(base, "contextModifiers"),
                       dataSources |-> config.dataSources,
                       tracing |-> config.tracing,
                       warnings |-> config.warnings,
                       baseAtCall |-> base,
                       entriesAtCall |-> entries]
    /\ ctxOut' = NoContext
    /\ UNCHANGED held
    /\ UNCHANGED <<avars, bvars, rvars>>

\* the context function of the last built config is called for a request
InvokeContext ==
    /\ built.status = "built"
    /\ \E arg \in Requests :
         ctxOut' = [called |-> TRUE, arg |-> arg,
                    ctx |-> RunModifiers(IF built.aliased
                                         THEN base["contextModifiers"].items
                                         ELSE built.contextModifiers, arg, <<>>)]
    /\ UNCHANGED <<base, built, held, buildsLeft>>
    /\ UNCHANGED <<avars, bvars, rvars>>

\* `const { contextModifiers } = config`: the list a context function reads
\* is the array of its config, which is base's own array when base has one
ModifiersOf(fn) ==
    IF fn.aliased THEN base["contextModifiers"].items ELSE fn.contextModifiers

\* the caller keeps the context function of the last built config and calls
\* it for a request
HoldContext ==
    /\ built.status = "built"
    /\ ~held.held
    /\ \E arg \in Requests :
         held' = [held |-> TRUE, aliased |-> built.aliased,
                  contextModifiers |-> built.contextModifiers,
                  first |-> [called |-> TRUE, arg |-> arg,
                             ctx |-> RunModifiers(ModifiersOf(built), arg, <<>>)],
                  again |-> NoContext]
    /\ UNCHANGED <<base, built, ctxOut, buildsLeft>>
    /\ UNCHANGED <<avars, bvars, rvars>>

\* the caller calls the function it kept once more, for an equal request
InvokeHeld ==
    /\ held.held
    /\ held' = [held EXCEPT !.again =
                    [called |-> TRUE, arg |-> held.first.arg,
                     ctx |-> RunModifiers(ModifiersOf(held), held.first.arg, <<>>)]]
    /\ UNCHANGED <<base, built, ctxOut, buildsLeft>>
    /\ UNCHANGED <<avars, bvars, rvars>>

\* registrations and builds, no listener registered
NextBuild ==
    \/ CallRegisterExtensions
    \/ ResumeRegisterExtensions
    \/ CreateGraphQLConfig

\* registrations, builds and requests
NextContext ==
    \/ CallRegisterExtensions
    \/ ResumeRegisterExtensions
    \/ CreateGraphQLConfig
    \/ InvokeContext

\* registrations, builds and a context function the caller keeps
NextHeld ==
    \/ CallRegisterExtensions
    \/ ResumeRegisterExtensions
    \/ CreateGraphQLConfig
    \/ HoldContext
    \/ InvokeHeld

\* ------------------------------------------------------------------------
\* Specifications
\* ------------------------------------------------------------------------
vars == <<bvars, avars, rvars, gvars>>

\* how many entries may still be registered and configs built
Budget(registrations, builds) == regsLeft = registrations /\ buildsLeft = builds

\* nothing registered, no listener
IdleRegistry == InitRegistry /\ listeners = 0

\* no config built, the caller holds an empty defaultConfig
IdleBuilder == InitBuilder /\ base = NoBase

\* the backend-config aggregator serving one request
InitSpecBackend ==
    InitBackend /\ InitResolver /\ IdleRegistry /\ IdleBuilder /\ Budget(0, 0)

SpecBackend == InitSpecBackend /\ [][NextBackend]_vars

\* mergeBackendConfigs on its own, over every list of configs within the bounds
InitSpecMerge ==
    InitMerge /\ InitResolver /\ IdleRegistry /\ IdleBuilder /\ Budget(0, 0)

SpecMerge == InitSpecMerge /\ [][NextMerge]_vars

\* auto-binding a schema fragment and invoking the resolvers it yields
InitSpecResolver ==
    InitMerge /\ InitResolver /\ IdleRegistry /\ IdleBuilder /\ Budget(0, 0)

SpecResolver == InitSpecResolver /\ [][NextResolver]_vars

\* registerExtensions calls with listeners of the "extension registered" event
InitSpecRegister ==
    /\ InitMerge /\ InitResolver /\ InitRegistry /\ IdleBuilder
    /\ listeners \in 1..MaxListeners
    /\ Budget(MaxRegistrations, 0)

SpecRegister == InitSpecRegister /\ [][NextRegister]_vars

\* registrations and re-registrations interleaved with builds of the server
\* config from one defaultConfig object
InitSpec ==
    /\ InitMerge /\ InitResolver /\ IdleRegistry /\ InitBuilder
    /\ Budget(MaxRegistrations, MaxBuilds)

Spec == InitSpec /\ [][NextBuild]_vars

\* as many registrations as there are identifiers, then their aggregate built
InitSpecCompose ==
    /\ InitMerge /\ InitResolver /\ IdleRegistry /\ InitBuilder
    /\ Budget(Len(KeyOrder), MaxComposeBuilds)

SpecCompose == InitSpecCompose /\ [][NextBuild]_vars

\* registrations, a build, and calls of the context function it returns
InitSpecContext ==
    /\ InitMerge /\ InitResolver /\ IdleRegistry /\ InitBuilder
    /\ Budget(MaxRegistrations, MaxComposeBuilds)

SpecContext == InitSpecContext /\ [][NextContext]_vars

\* registrations and builds while the caller keeps a context function
InitSpecHeld ==
    /\ InitMerge /\ InitResolver /\ IdleRegistry /\ InitBuilder
    /\ Budget(MaxRegistrations, MaxBuilds)

SpecHeld == InitSpecHeld /\ [][NextHeld]_vars

\* ------------------------------------------------------------------------
\* Properties of the backend-config aggregator
\* ------------------------------------------------------------------------
SomeProviderUnsupported == \E i \in DOMAIN dataSources : ~dataSources[i].hasFetch

HasList(c) == ~c.isNull /\ IsArray(Get(c.fields, "locales"))

\* the strings that occur in the locales list of every config that has one
CommonLocales(cs) ==
    {l \in Locales : \A i \in DOMAIN cs : HasList(cs[i]) => l \in Range(cs[i].fields.locales.s)}

PermTable ==
    [n \in 0..MaxProviders |->
       {p \in [1..n -> 1..n] : \A i, j \in 1..n : p[i] = p[j] => i = j}]

Perms(n) == PermTable[n]

\* C7: the object mergeBackendConfigs returns has no field but locales (and
\* has it as soon as one config is not null); when some config has a
\* locales list its locales is a list holding exactly the strings common to
\* the lists of all configs that have one, otherwise it is undefined; and
\* the set of strings is the same for every order of the configs.
C7_LocalesIntersection ==
    fpc = "merged" =>
      LET cs == mergeInput
          res == fresult.fields
          locs == Get(res, "locales")
      IN /\ DOMAIN res \subseteq {"locales"}
         /\ (\E i \in DOMAIN cs : ~cs[i].isNull) => DOMAIN res = {"locales"}
         /\ IF \E i \in DOMAIN cs : HasList(cs[i])
            THEN IsArray(locs) /\ Range(locs.s) = CommonLocales(cs)
            ELSE locs = Undef
         /\ \A p \in Perms(Len(cs)) :
              LET other == Get(mergeBackendConfigs([i \in 1..Len(cs) |-> cs[p[i]]]), "locales")
              IN other.t = locs.t /\ Range(other.s) = Range(locs.s)

ListCfg(l) == ObjCfg([f \in {"locales", "shop"} |-> IF f = "locales" THEN Arr(l) ELSE Str("main")])

\* C7 witness: ["en","de"] merged with ["de","fr"] has given ["de"].
C7_Witness ==
    /\ fpc = "merged"
    /\ mergeInput = <<ListCfg(<<"en", "de">>), ListCfg(<<"de", "fr">>)>>
    /\ fresult.fields = [f \in {"locales"} |-> Arr(<<"de">>)]

\* C8: the providers' fetches are called in the iteration order of
\* context.dataSources and one at a time: at most one call is in flight,
\* and every call made before the latest one has settled.
C8_Sequential ==
    /\ Cardinality(inFlight) <= 1
    /\ \A k \in DOMAIN calls : calls[k] = k
    /\ \A k \in DOMAIN calls : k < Len(calls) => (k \in DOMAIN outcome /\ k \notin inFlight)

\* C8 witness: the second provider's fetch is in flight after the first resolved.
C8_Witness ==
    /\ calls = <<1, 2>>
    /\ inFlight = {2}
    /\ 1 \in DOMAIN outcome /\ ~outcome[1].rejected

\* ------------------------------------------------------------------------
\* Properties of the auto-bound resolvers
\* ------------------------------------------------------------------------
WasInvoked == settled.kind # "none"

\* C4: a bound resolver invoked with a context whose named data source has
\* the field's method calls that method exactly once with the four
\* arguments it was given and returns the method's result, without raising.
C4_ForwardsToMethod ==
    LET r == invoked.resolver
        call == invoked.call
    IN (WasInvoked /\ r.ds \in DOMAIN call.context /\ r.field \in call.context[r.ds]) =>
         /\ settled.kind = "returned"
         /\ settled.forwarded = <<[ds |-> r.ds, method |-> r.field, call |-> call]>>
         /\ settled.value = MethodResult(r.ds, r.field, call)

\* C5: a bound resolver invoked with a context that has no data source of
\* its name resolves to null and raises nothing.
C5_MissingProviderNull ==
    LET r == invoked.resolver
        call == invoked.call
    IN (WasInvoked /\ r.ds \in ApiNames /\ r.ds \notin DOMAIN call.context) =>
         /\ settled.kind = "returned"
         /\ settled.value = NullValue

\* ------------------------------------------------------------------------
\* Properties of the extension registry
\* ------------------------------------------------------------------------
\* what registerExtensions does for one entry
RegistrationSteps == {"init", "schema", "set", "emit"}

\* listeners of the notification logged at position p that have resolved
\* before position q of the log
ResolvedBetween(p, q) ==
    Cardinality({j \in (p + 1)..(q - 1) : events[j] = Event("resolved", events[p].key)})

\* the identifiers notified so far by the running call, in the order notified
EmittedKeys ==
    LET emits == SelectSeq(events, LAMBDA ev : ev.e = "emit")
    IN [i \in DOMAIN emits |-> emits[i].key]

\* C1: within one registerExtensions call, whenever a step of a later entry
\* (initializer invoked, schema file loaded, config stored, notification
\* emitted) follows the notification of an entry, every listener of that
\* notification has resolved in between; and the notifications are emitted
\* for the entries in their declared order.
C1_NotificationCompletes ==
    /\ \A p, q \in DOMAIN events :
         (p < q /\ events[p].e = "emit" /\ events[q].e \in RegistrationSteps)
           => ResolvedBetween(p, q) = listeners
    /\ EmittedKeys = [i \in 1..Len(EmittedKeys) |-> declared[i].key]

\* C1 witness: two listeners, a call over two entries; both listeners of the
\* first notification resolved, the second entry was processed and its
\* notification has completed as well.
C1_Witness ==
    /\ rpc = "emitting"
    /\ listeners = 2
    /\ Len(declared) = 2
    /\ ridx = 2
    /\ pending = 0
    /\ ~emitRejected
    /\ Cardinality({j \in DOMAIN events : events[j] = Event("resolved", declared[1].key)}) = 2

\* ------------------------------------------------------------------------
\* Properties of the config builder
\* ------------------------------------------------------------------------
SchemaKeys == {"schema", "schemas"}

\* the schema fragments of a stored config: the strings under its schema
\* and schemas keys, in the order of its keys
RECURSIVE FragmentsUnder(_, _)
FragmentsUnder(cfg, ks) ==
    IF ks = <<>> THEN <<>>
    ELSE (IF Head(ks) \in SchemaKeys THEN cfg.vals[Head(ks)].items ELSE <<>>)
         \o FragmentsUnder(cfg, Tail(ks))

FragmentsOf(cfg) == FragmentsUnder(cfg, cfg.keys)

RECURSIVE ConcatFragments(_)
ConcatFragments(map) ==
    IF map = <<>> THEN <<>>
    ELSE FragmentsOf(Head(map).config) \o ConcatFragments(Tail(map))

BaseFragments(b) == IF Has(b, "schemas") THEN b["schemas"].items ELSE <<>>

KeysOf(map) == [i \in DOMAIN map |-> map[i].key]

\* C2: the fragment sequence of a built aggregate is the fragments of the
\* base config as passed, followed by the fragments of each stored config
\* in the order the extensions were first registered; an extension without
\* fragments adds nothing in its place.
C2_FragmentsInRegistrationOrder ==
    built.status = "built" =>
      /\ built.schemas = BaseFragments(built.baseAtCall) \o ConcatFragments(built.entriesAtCall)
      /\ KeysOf(built.entriesAtCall) = SubSeq(order, 1, Len(built.entriesAtCall))

\* C2 witness: a base with fragments and three extensions, the second one
\* without fragments between two that have different fragments.
C2_Witness ==
    /\ built.status = "built"
    /\ BaseFragments(built.baseAtCall) # <<>>
    /\ Len(built.entriesAtCall) = 3
    /\ FragmentsOf(built.entriesAtCall[1].config) # <<>>
    /\ FragmentsOf(built.entriesAtCall[2].config) = <<>>
    /\ FragmentsOf(built.entriesAtCall[3].config) # <<>>
    /\ FragmentsOf(built.entriesAtCall[1].config) # FragmentsOf(built.entriesAtCall[3].config)

\* the context values of the stored configs, in registry order
RECURSIVE ExtensionContexts(_)
ExtensionContexts(map) ==
    IF map = <<>> THEN <<>>
    ELSE (IF Head(map).config.vals["context"].t # "undef"
          THEN <<Head(map).config.vals["context"]>> ELSE <<>>)
         \o ExtensionContexts(Tail(map))

MaxOf(S) == CHOOSE x \in S : \A y \in S : y <= x

\* what modifier j of ms contributes for request arg, and the context after
\* the first n modifiers: each field holds what its last setter gave it
RECURSIVE ContextAfter(_, _, _)
Contribution(ms, arg, j) ==
    IF ms[j].t = "fn"
    THEN ModifierReturn(ms[j].fn, arg, ContextAfter(ms, arg, j - 1))
    ELSE ms[j].obj

ContextAfter(ms, arg, n) ==
    LET fields == UNION {DOMAIN Contribution(ms, arg, j) : j \in 1..n}
    IN [f \in fields |->
          Contribution(ms, arg, MaxOf({j \in 1..n : f \in DOMAIN Contribution(ms, arg, j)}))[f]]

\* m1 is the base config's context, when it has one
BaseContextFirst(b, map) ==
    (IF Has(b, "context") THEN <<b["context"]>> ELSE <<>>) \o ExtensionContexts(map)

\* C3: the context returned for a request is the merge onto {} of
\* the base config's context (if present) and then the extensions' context
\* modifiers in registration order, a function modifier called with the
\* request and the context so far, the later modifier winning a field.
C3_BaseContextFirst ==
    ctxOut.called =>
      LET ms == BaseContextFirst(built.baseAtCall, built.entriesAtCall)
      IN ctxOut.ctx = ContextAfter(ms, ctxOut.arg, Len(ms))

\* the fragments the registry's configs have now
CurrentFragments(map) == Range(ConcatFragments(map))

\* C9: a registration stores the new config under its identifier, once, and
\* an aggregate built afterwards holds no fragment of a config that was
\* replaced, unless a stored config has that fragment too.
C9_Overwrite ==
    [][/\ entries' # entries =>
            /\ \A i, j \in DOMAIN entries' : entries'[i].key = entries'[j].key => i = j
            /\ MapGet(entries', declared'[ridx'].key)
                 = ExtGqlConfig(Packages[declared'[ridx'].package])
       /\ (buildsLeft' < buildsLeft /\ built'.status = "built") =>
            /\ CurrentFragments(entries) \subseteq Range(built'.schemas)
            /\ \A r \in replaced :
                 \A f \in Range(FragmentsOf(r.config)) \ CurrentFragments(entries) :
                   f \notin Range(built'.schemas)]_vars

RecognizedKeys == {"schema", "schemas", "resolvers", "context", "dataSources"}

\* mergeGraphQLConfig was called for entry i of the registry during the build
WasMerged(i) ==
    ~MergeEntries(SeedConfig(built.baseAtCall), SubSeq(built.entriesAtCall, 1, i - 1)).threw

\* C10: for every stored config that was merged during a createGraphQLConfig
\* call and has a key outside the recognized ones, a warning naming the
\* extension and the key was logged, and the aggregate's value under that
\* key is what the base config had.
C10_UnsupportedKeyWarned ==
    built.status # "none" =>
      \A i \in DOMAIN built.entriesAtCall :
        \A key \in Range(built.entriesAtCall[i].config.keys) \ RecognizedKeys :
          WasMerged(i) =>
            /\ [ext |-> built.entriesAtCall[i].key, key |-> key] \in Range(built.warnings)
            /\ built.tracing = built.baseAtCall["tracing"]

\* ------------------------------------------------------------------------
\* Properties of the auto-binder
\* ------------------------------------------------------------------------
\* the (root type, field) pairs each schema text declares on its root
\* operation types
DeclaredRootFields(typeDefs) ==
    CASE typeDefs = BlogTypeDefs -> {<<"Query", "posts">>}
      [] typeDefs = ShopTypeDefs ->
           {<<"Query", "product">>, <<"Query", "cart">>, <<"Mutation", "addToCart">>}
      [] OTHER -> {}

\* the (type, field) pairs a resolver map has a resolver for
ResolverPairs(map) == {<<ty, f>> : ty \in DOMAIN map, f \in FieldNames} \cap
                      UNION {{<<ty, f>> : f \in DOMAIN map[ty]} : ty \in DOMAIN map}

\* C11: after getExtensionGraphQLConfig(typeDefs, X) the resolver map has a
\* resolver for exactly the (root type, field) pairs typeDefs declares on
\* its root operation types, each one the forwarding resolver to X's method
\* of the field's name, and the returned schema is the one-element array
\* of typeDefs; for empty typeDefs nothing is returned.
C11_ExactlyDeclaredPairs ==
    /\ bindResult.status = "config" =>
         /\ boundFrom.typeDefs # EmptyTypeDefs
         /\ ResolverPairs(bound) = DeclaredRootFields(boundFrom.typeDefs)
         /\ \A ty \in DOMAIN bound : \A f \in DOMAIN bound[ty] :
              bound[ty][f] = AutoResolver(boundFrom.dataSourceName, f)
         /\ bindResult.schema = <<boundFrom.typeDefs>>
    /\ (bindResult.status # "none" /\ boundFrom.typeDefs = EmptyTypeDefs) =>
         bindResult.status = "undefined" /\ bound = <<>>

\* C11 witness: a fragment declaring fields on Query and on Mutation was
\* bound to data source magento.
C11_Witness ==
    /\ bindResult.status = "config"
    /\ boundFrom = [typeDefs |-> ShopTypeDefs, dataSourceName |-> "magento"]
    /\ DOMAIN bound = {"Query", "Mutation"}

\* ------------------------------------------------------------------------
\* Further properties of the config builder
\* ------------------------------------------------------------------------
\* the resolver maps a base config supplies: the items of an array, or the
\* single map
BaseResolverMaps(b) ==
    IF b["resolvers"].t = "arr" THEN b["resolvers"].items
    ELSE IF b["resolvers"].t = "obj" THEN <<b["resolvers"].obj>>
    ELSE <<>>

\* the resolver maps of the stored configs, in registry order
RECURSIVE ExtensionResolverMaps(_)
ExtensionResolverMaps(map) ==
    IF map = <<>> THEN <<>>
    ELSE (IF Head(map).config.vals["resolvers"].t = "obj"
          THEN <<Head(map).config.vals["resolvers"].obj>> ELSE <<>>)
         \o ExtensionResolverMaps(Tail(map))

\* C12: the resolver sequence of a built aggregate is the resolver maps the
\* base config supplies (a single map as one element, an array's items)
\* followed by the extensions' resolver maps in registration order.
C12_BaseResolversSeeded ==
    built.status = "built" =>
      built.resolvers = BaseResolverMaps(built.baseAtCall)
                          \o ExtensionResolverMaps(built.entriesAtCall)

\* ------------------------------------------------------------------------
\* Properties of the stored extension configs
\* ------------------------------------------------------------------------
\* the entry the running registerExtensions call has just stored
JustStored == rpc = "emitting"
StoredKey == declared[ridx].key
StoredPackage == Packages[declared[ridx].package]
StoredConfig == MapGet(entries, StoredKey)

\* the resolver map under a config's resolvers key ({} when it has none)
ResolversOf(cfg) ==
    IF cfg.vals["resolvers"].t = "obj" THEN cfg.vals["resolvers"].obj ELSE <<>>

HasResolver(map, ty, f) == ty \in DOMAIN map /\ f \in DOMAIN map[ty]

\* C13: for an extension whose initializer returned a config with schema
\* fragments or resolvers and whose package has a schema file, the stored
\* fragments are the initializer's (a string counting as one fragment)
\* followed by the schema file's text, and the stored resolver map has the
\* auto-bound resolver for every pair the schema file declares and the
\* initializer's resolver for every other pair the initializer gave.
C13_StoredIsDeepMerge ==
    LET pkg == StoredPackage
        initMap == ResolversOf(pkg.result)
        storedMap == ResolversOf(StoredConfig)
        declaredPairs == DeclaredRootFields(pkg.schemaFile)
    IN (/\ JustStored
        /\ pkg.init = "config"
        /\ pkg.schemaFile # ""
        /\ (FragmentsOf(pkg.result) # <<>> \/ initMap # <<>>)) =>
         /\ FragmentsOf(StoredConfig) = FragmentsOf(pkg.result) \o <<pkg.schemaFile>>
         /\ \A pair \in declaredPairs :
              /\ HasResolver(storedMap, pair[1], pair[2])
              /\ storedMap[pair[1]][pair[2]] = AutoResolver(pkg.api, pair[2])
         /\ \A ty \in DOMAIN initMap : \A f \in DOMAIN initMap[ty] :
              <<ty, f>> \notin declaredPairs =>
                /\ HasResolver(storedMap, ty, f)
                /\ storedMap[ty][f] = initMap[ty][f]

\* ------------------------------------------------------------------------
\* Properties of the aggregate's dataSources
\* ------------------------------------------------------------------------
\* the name -> instance mapping under a config's dataSources key
DataSourcesOf(cfg) ==
    IF cfg.vals["dataSources"].t = "obj" THEN cfg.vals["dataSources"].obj ELSE <<>>

BaseDataSources(b) == IF b["dataSources"].t = "obj" THEN b["dataSources"].obj ELSE <<>>

\* the entries of map that bind name
Binders(map, name) == {i \in DOMAIN map : name \in DOMAIN DataSourcesOf(map[i].config)}

\* base's mapping overlaid with the extensions': each name bound to the
\* instance of the last extension binding it, or else to base's
Overlay(b, map) ==
    LET names == DOMAIN BaseDataSources(b)
                   \cup UNION {DOMAIN DataSourcesOf(map[i].config) : i \in DOMAIN map}
    IN [n \in names |->
          IF Binders(map, n) # {}
          THEN DataSourcesOf(map[MaxOf(Binders(map, n))].config)[n]
          ELSE BaseDataSources(b)[n]]

\* C14: every createGraphQLConfig call completes, and the aggregate's
\* dataSources (an absent mapping counting as empty) are base's overlaid
\* with each extension's in registration order.
C14_DataSourcesOverlay ==
    built.status # "none" =>
      /\ built.status = "built"
      /\ (IF built.dataSources.t = "obj" THEN built.dataSources.obj ELSE <<>>)
           = Overlay(built.baseAtCall, built.entriesAtCall)

\* ------------------------------------------------------------------------
\* Properties of deferred binding errors
\* ------------------------------------------------------------------------
MethodNotDefined == "Error: resolver method is not defined"

\* C15: binding raises nothing whatever the data sources are, and a resolver
\* invocation ends in "resolver method is not defined" only if the named
\* data source is in the context and has no method of the field's name.
C15_ErrorOnlyWhenMethodMissing ==
    /\ bindResult.status \in {"none", "undefined", "config"}
    /\ settled.kind = MethodNotDefined =>
         LET r == invoked.resolver
             call == invoked.call
         IN /\ WasInvoked
            /\ r.ds \in DOMAIN call.context
            /\ r.field \notin call.context[r.ds]

\* ------------------------------------------------------------------------
\* Properties of registration without initializer or schema file
\* ------------------------------------------------------------------------
\* how many times the running call logged step e for key
Count(e, key) == Cardinality({j \in DOMAIN events : events[j] = Event(e, key)})

\* what holds while the notification of entry ridx is being delivered
RegisteredSoFar ==
    /\ \A i \in 1..Len(declared) :
         LET n == IF i <= ridx THEN 1 ELSE 0
         IN Count("set", declared[i].key) = n /\ Count("emit", declared[i].key) = n
    /\ \A i \in 1..ridx : MapHas(entries, declared[i].key)
    /\ payload = [name |-> StoredKey, instance |-> StoredConfig]
    /\ LET pkg == StoredPackage
       IN /\ pkg.init = "none" =>
               /\ Count("init", StoredKey) = 0
               /\ FragmentsOf(StoredConfig)
                    = (IF pkg.schemaFile = "" THEN <<>> ELSE <<pkg.schemaFile>>)
          /\ pkg.schemaFile = "" =>
               /\ Count("warn", StoredKey) = 1
               /\ StoredConfig.keys = (IF pkg.init = "config" THEN pkg.result.keys ELSE <<>>)
               /\ \A k \in Range(StoredConfig.keys) : StoredConfig.vals[k] = pkg.result.vals[k]
          /\ (pkg.init = "none" /\ pkg.schemaFile = "") => StoredConfig = EmptyConfig

\* C16: while a registerExtensions call runs, every entry it has reached is
\* stored and was notified exactly once (no later entry is), the payload
\* names the identifier and carries the config stored under it, an
\* extension without initializer has only the schema-derived config, one
\* without schema file gets a warning and only the initializer's config;
\* and a call whose listeners all resolve returns only after its last entry.
C16_EveryEntryRegistered ==
    [][/\ JustStored' => RegisteredSoFar'
       /\ (JustStored /\ ~JustStored' /\ ~emitRejected) => ridx = Len(declared)]_vars

\* C16 witness: a call over two entries, the first without initializer, the
\* second without schema file, both stored and notified.
C16_Witness ==
    /\ JustStored
    /\ Len(declared) = 2 /\ ridx = 2
    /\ Packages[declared[1].package].init = "none"
    /\ StoredPackage.schemaFile = ""
    /\ StoredPackage.init = "config"
    /\ Count("warn", StoredKey) = 1
    /\ payload.instance = StoredConfig

\* ------------------------------------------------------------------------
\* Properties of what createGraphQLConfig writes to
\* ------------------------------------------------------------------------
\* a createGraphQLConfig call
BuildStep == buildsLeft' < buildsLeft

\* C17: a createGraphQLConfig call leaves the registry and the base config
\* it was given as they were, and a call that follows another one with the
\* registry unchanged in between yields the same fragments, resolvers and
\* dataSources.
C17_BuildWritesNothing ==
    [][BuildStep =>
         /\ entries' = entries
         /\ base' = base
         /\ (built.status = "built" /\ built'.status = "built"
               /\ built.entriesAtCall = entries) =>
              /\ built'.schemas = built.schemas
              /\ built'.resolvers = built.resolvers
              /\ built'.dataSources = built.dataSources]_vars

\* ------------------------------------------------------------------------
\* Properties of the registry as the listeners see it
\* ------------------------------------------------------------------------
\* the running call is the first one that registers anything
OnEmptyRegistry == regsLeft + Len(declared) = MaxRegistrations

\* C18: while the listeners of the notification for entry i of a call on
\* an empty registry run, the registry holds entries for exactly the first
\* i identifiers of the call, in that order, and the config stored for the
\* i-th is the payload's instance.
C18_RegistryAtNotification ==
    (JustStored /\ OnEmptyRegistry) =>
      /\ KeysOf(entries) = [i \in 1..ridx |-> declared[i].key]
      /\ payload.name = StoredKey
      /\ payload.instance = StoredConfig

\* C18 witness: the listeners of the first of two entries are running, none
\* has settled yet, and the second entry is not in the registry.
C18_Witness ==
    /\ JustStored /\ OnEmptyRegistry
    /\ Len(declared) = 2 /\ ridx = 1
    /\ pending = listeners
    /\ ~MapHas(entries, declared[2].key)
    /\ MapHas(entries, declared[1].key)

\* C19: a context function returns equal contexts for equal requests: the
\* context of its second call for a request is the context of its first call
\* for that request, whatever happened between the two calls.
C19_EqualRequestsEqualContexts ==
    (held.first.called /\ held.again.called) => held.again.ctx = held.first.ctx

\* the pairs both the initializer's resolver map and the schema file of the
\* package just stored have
SuppliedAndDeclared ==
    ResolverPairs(ResolversOf(StoredPackage.result))
        \cap DeclaredRootFields(StoredPackage.schemaFile)

\* C20: when the initializer of an extension supplies a resolver for a root
\* field the schema file of the extension declares too, the resolver stored
\* for that field is the forwarding resolver to the extension's method of
\* the field's name, not the initializer's resolver.
C20_AutoBoundWins ==
    (JustStored /\ StoredPackage.init = "config" /\ StoredPackage.schemaFile # "") =>
      \A pair \in SuppliedAndDeclared :
         LET stored == ResolversOf(StoredConfig)
         IN /\ HasResolver(stored, pair[1], pair[2])
            /\ stored[pair[1]][pair[2]] = AutoResolver(StoredPackage.api, pair[2])
            /\ stored[pair[1]][pair[2]]
                 # ResolversOf(StoredPackage.result)[pair[1]][pair[2]]

\* C20 witness: an extension whose initializer gave a resolver for
\* Query.product and whose schema file declares Query.product was stored
\* with the forwarding resolver for it.
C20_Witness ==
    /\ JustStored
    /\ StoredPackage.init = "config"
    /\ <<"Query", "product">> \in SuppliedAndDeclared
    /\ ResolversOf(StoredConfig)["Query"]["product"]
         = AutoResolver(StoredPackage.api, "product")

====
